---------------------------- MODULE Spec2Model ----------------------------
(***************************************************************************)
(* The to-do list REST backend: registration and login (routes/auth.js),   *)
(* the profile routes (routes/users.js), the owner-scoped todo routes and  *)
(* the admin routes (routes/admin.js), over the users and todos tables.    *)
(*                                                                         *)
(* A JavaScript string is a sequence of one-character strings, so that     *)
(* trim, length and the regular expressions are computed as the code       *)
(* computes them.  A value that is absent from the request body is UNDEF.  *)
(***************************************************************************)
EXTENDS Integers, Sequences, FiniteSets, TLC

(*************************** bounds of the model ***************************)
\* rows the users table ever receives (AUTO_INCREMENT ids 1..MaxUsers)
MaxUsers == 2
\* register requests that are served at the same time
MaxInFlight == 2
\* rows the todos table ever receives (AUTO_INCREMENT ids 1..MaxTodos)
MaxTodos == 2
\* bearer tokens the clients hold at one time
MaxTokens == 2
\* number of clock steps the model takes
MaxTicks == 3

(****************************** JS values *********************************)
UNDEF == <<"undefined">>
Blank == << >>

\* JavaScript truthiness of a string-or-undefined value: !v is true for
\* undefined and for the empty string
Truthy(v) == v # UNDEF /\ v # Blank

\* a JSON number (non-zero) where the handler expects a string: truthy,
\* and without the methods of a string
NUMBER == <<"number">>
IsString(v) == v # UNDEF /\ v # NUMBER

WhiteSpace == {" ", "\t", "\n"}
Digits == {"0", "1", "2", "3", "4", "5", "6", "7", "8", "9"}

RECURSIVE TrimStart(_)
TrimStart(s) ==
    IF s # << >> /\ Head(s) \in WhiteSpace THEN TrimStart(Tail(s)) ELSE s

RECURSIVE TrimEnd(_)
TrimEnd(s) ==
    IF s # << >> /\ s[Len(s)] \in WhiteSpace
    THEN TrimEnd(SubSeq(s, 1, Len(s) - 1)) ELSE s

\* String.prototype.trim
Trim(s) == TrimEnd(TrimStart(s))

\* /\S+@\S+\.\S+/.test(s): unanchored; \S also matches "@" and "."
EmailRegexTest(s) ==
    \E p \in 1..Len(s), q \in 1..Len(s) :
        /\ 1 < p /\ p + 1 < q /\ q < Len(s)
        /\ s[p] = "@" /\ s[q] = "."
        /\ s[p - 1] \notin WhiteSpace
        /\ \A i \in (p + 1)..(q - 1) : s[i] \notin WhiteSpace
        /\ s[q + 1] \notin WhiteSpace

\* /^\+?[\d\s-()]+$/.test(s)
PhoneRegexTest(s) ==
    LET rest == IF s # << >> /\ Head(s) = "+" THEN Tail(s) ELSE s
    IN  /\ rest # << >>
        /\ \A i \in 1..Len(rest) :
               rest[i] \in Digits \cup WhiteSpace \cup {"-", "(", ")"}

\* phone_number.replace(/\D/g, '')
DigitsOnly(s) == SelectSeq(s, LAMBDA c : c \in Digits)


(************************** numbers in strings ****************************)
DigitSeq == <<"0", "1", "2", "3", "4", "5", "6", "7", "8", "9">>
DigitChar(n) == DigitSeq[n + 1]
DigitVal(c) == CHOOSE n \in 0..9 : DigitSeq[n + 1] = c

\* the longest prefix of s made of digits
RECURSIVE TakeDigits(_)
TakeDigits(s) ==
    IF s # << >> /\ Head(s) \in Digits
    THEN <<Head(s)>> \o TakeDigits(Tail(s)) ELSE << >>

RECURSIVE DigitsValue(_)
DigitsValue(ds) ==
    IF ds = << >> THEN 0
    ELSE 10 * DigitsValue(SubSeq(ds, 1, Len(ds) - 1)) + DigitVal(ds[Len(ds)])

RECURSIVE Pow10(_)
Pow10(n) == IF n = 0 THEN 1 ELSE 10 * Pow10(n - 1)

DropN(s, n) == SubSeq(s, n + 1, Len(s))

\* JavaScript parseInt(s) in radix 10: leading white space is skipped, then
\* an optional sign and the longest run of digits; NaN when there is none
ParseInt(s) ==
    LET t    == TrimStart(s)
        neg  == t # << >> /\ Head(t) = "-"
        body == IF t # << >> /\ Head(t) \in {"+", "-"} THEN Tail(t) ELSE t
        ds   == TakeDigits(body)
    IN  IF ds = << >> THEN [isNaN |-> TRUE, val |-> 0]
        ELSE [isNaN |-> FALSE,
              val |-> IF neg THEN 0 - DigitsValue(ds) ELSE DigitsValue(ds)]

\* parseInt(id) === n  (NaN is equal to nothing)
ParseIntEquals(s, n) == ~ParseInt(s).isNaN /\ ParseInt(s).val = n

\* The store's conversion of a quoted string parameter compared with an
\* INT column (WHERE id = '...'): the longest numeric prefix, read as
\* digits with an optional exponent, as the rational num / den; a string
\* with no numeric prefix is 0
SqlNumber(s) ==
    LET t     == TrimStart(s)
        ds    == TakeDigits(t)
        rest  == DropN(t, Len(ds))
        hasE  == rest # << >> /\ Head(rest) \in {"e", "E"}
        afterE == IF hasE THEN Tail(rest) ELSE << >>
        eneg  == afterE # << >> /\ Head(afterE) = "-"
        ebody == IF afterE # << >> /\ Head(afterE) \in {"+", "-"}
                 THEN Tail(afterE) ELSE afterE
        eds   == TakeDigits(ebody)
        e     == DigitsValue(eds)
    IN  IF ds = << >> THEN [num |-> 0, den |-> 1]
        ELSE IF ~hasE \/ eds = << >> THEN [num |-> DigitsValue(ds), den |-> 1]
        ELSE IF eneg THEN [num |-> DigitsValue(ds), den |-> Pow10(e)]
        ELSE [num |-> DigitsValue(ds) * Pow10(e), den |-> 1]

\* WHERE <int column> = <string parameter>
SqlIdEq(col, s) == SqlNumber(s).num = col * SqlNumber(s).den

(****************************** bcrypt ************************************)
SaltRounds == 10

\* bcrypt.hash(password, 10): a one-way salted hash of the plaintext
BcryptHash(pw) == [alg |-> "bcrypt", rounds |-> SaltRounds, of |-> pw]

\* bcrypt.compare(password, hash)
BcryptCompare(pw, h) == h.alg = "bcrypt" /\ h.of = pw

(******************************* state ************************************)
VARIABLES
    users,        \* the users table: a set of rows
    nextUserId,   \* its AUTO_INCREMENT counter
    todos,        \* the todos table (owner-scoped variant): a set of rows
    nextTodoId,   \* its AUTO_INCREMENT counter
    tokens,       \* the bearer tokens the clients hold
    now,          \* the clock, in hours
    storeUp,      \* the store and the hasher answer (FALSE: their calls throw)
    inflight,     \* the requests suspended at an await, by connection
    env,          \* process.env after dotenv has loaded the configuration
    connection,   \* database.js: let connection ("undefined" until connected)
    server,       \* startServer: "starting", "connected", "listening", "crashed"
    req,          \* the last request: route, verified identity, arguments
    resp          \* the response it received

vars == <<users, nextUserId, todos, nextTodoId, tokens, now, storeUp, inflight,
          env, connection, server, req, resp>>
boot == <<env, connection, server>>
store == <<users, nextUserId, todos, nextTodoId>>


(******************************* tokens ***********************************)
\* the value of a variable the configuration does not set
NoSecret == "undefined"

\* process.env.JWT_SECRET
JwtSecret == env.JWT_SECRET

\* expiresIn: '24h'
ExpiresInHours == 24

\* the signature of a claim set under a key
Mac(key, userId, email, role, iat, exp) ==
    [key |-> key, over |-> <<userId, email, role, iat, exp>>]

\* a signing that sets the expiry a year ahead instead of expiresIn
JwtSignLongLived(u, key, t) ==
    [wellFormed |-> TRUE,
     userId |-> u.id, email |-> u.email, role |-> u.role,
     iat |-> t, exp |-> t + 365 * ExpiresInHours,
     sig |-> Mac(key, u.id, u.email, u.role, t, t + 365 * ExpiresInHours)]

\* jwt.sign({userId, email, role}, process.env.JWT_SECRET, {expiresIn:'24h'})
\* at time t for the user row u
JwtSignAs(u, key, t) ==
    [wellFormed |-> TRUE,
     userId |-> u.id, email |-> u.email, role |-> u.role,
     iat |-> t, exp |-> t + ExpiresInHours,
     sig |-> Mac(key, u.id, u.email, u.role, t, t + ExpiresInHours)]

\* an issuing that embeds the row's name where the email belongs
IssueTokenWithName(u, t) == JwtSignAs([u EXCEPT !.email = u.name], JwtSecret, t)

\* the token POST /login issues for the row u at time t
IssueToken(u, t) == JwtSignAs(u, JwtSecret, t)

\* a string that is no token at all
Garbage ==
    [wellFormed |-> FALSE, userId |-> 0, email |-> Blank, role |-> 0,
     iat |-> 0, exp |-> 0, sig |-> Mac("", 0, Blank, 0, 0, 0)]

\* Token Service verify: Malformed, SignatureInvalid, Expired, or the claims
VerifyToken(tok, t) ==
    IF ~tok.wellFormed THEN [ok |-> FALSE, err |-> "Malformed"]
    ELSE IF tok.sig # Mac(JwtSecret, tok.userId, tok.email, tok.role,
                          tok.iat, tok.exp)
    THEN [ok |-> FALSE, err |-> "SignatureInvalid"]
    ELSE IF t >= tok.exp THEN [ok |-> FALSE, err |-> "Expired"]
    ELSE [ok |-> TRUE, err |-> ""]

\* the identity a verified token attaches to the request (req.user)
Claims(tok) == [userId |-> tok.userId, email |-> tok.email, role |-> tok.role]

NoUser == [userId |-> 0, email |-> UNDEF, role |-> 0]

\* the Authorization header of a request
NoHeader == [present |-> FALSE, token |-> Garbage]
Bearer(tok) == [present |-> TRUE, token |-> tok]

\* Auth Middleware: 401 without a token, 403 when verification fails,
\* otherwise the claims are attached and the next stage runs (status 0)
AuthenticateToken(h, t) ==
    IF ~h.present
    THEN [status |-> 401, body |-> [error |-> "Access token required"],
          user |-> NoUser]
    ELSE IF ~VerifyToken(h.token, t).ok
    THEN [status |-> 403, body |-> [error |-> "Invalid or expired token"],
          user |-> NoUser]
    ELSE [status |-> 0, body |-> [error |-> ""], user |-> Claims(h.token)]

\* a check that refuses only a missing role
CheckAdminAnyRole(user) ==
    IF user.role = 0
    THEN [status |-> 403, body |-> [error |-> "Access denied. Admin only."]]
    ELSE [status |-> 0, body |-> [error |-> ""]]

\* a check that reads the role from the caller's current row in the store
CheckAdminFromStore(user) ==
    IF \A u \in users : ~(u.id = user.userId /\ u.email = user.email /\ u.role = 1)
    THEN [status |-> 403, body |-> [error |-> "Access denied. Admin only."]]
    ELSE [status |-> 0, body |-> [error |-> ""]]

\* checkAdmin: role !== 1 is refused with 403
CheckAdmin(user) ==
    IF user.role # 1
    THEN [status |-> 403, body |-> [error |-> "Access denied. Admin only."]]
    ELSE [status |-> 0, body |-> [error |-> ""]]


(*************************** request values *******************************)
NameJo == <<"J", "o">>
NameAl == <<"A", "l">>
EmailA == <<"a", "@", "x", ".", "y">>
EmailB == <<"b", "@", "x", ".", "y">>
\* EmailA typed with a leading blank
SpEmailA == <<" ">> \o EmailA
PhoneA == <<"5", "5", "5", "-", "0", "1">>
PhoneB == <<"5", "5", "5", "-", "0", "2">>
Pw1 == <<"s", "e", "c", "r", "e", "t", "1">>
Pw2 == <<"s", "e", "c", "r", "e", "t", "2">>
TitleMilk == <<"m", "i", "l", "k">>
TitleEggs == <<"e", "g", "g", "s">>

\* the :id path parameter as the client writes it: a decimal numeral, or
\* the same number in exponent notation ("20e-1" for 2)
DecStr(n) == <<DigitChar(n)>>
ExpStr(n) == <<DigitChar(n), "0", "e", "-", "1">>
PathIds == {DecStr(n) : n \in 1..(MaxUsers + 1)} \cup {ExpStr(n) : n \in 1..MaxUsers}
TodoPathIds == {DecStr(n) : n \in 1..(MaxTodos + 1)}
UserPathIds == {DecStr(n) : n \in 1..(MaxUsers + 1)}

\* registrations of admin and standard accounts under two addresses
PlainRegisterBodies ==
    [name : {NameJo}, email : {EmailA, EmailB}, phone_number : {PhoneA},
     password : {Pw1}, role : {1, 2}]
PlainLoginBodies == [email : {EmailA, EmailB}, password : {Pw1}]

\* JSON bodies of POST /api/auth/register
RegisterBodies ==
    [name : {NameJo}, email : {EmailA, SpEmailA, EmailB},
     phone_number : {PhoneA}, password : {Pw1}, role : {1, 2}]
    \cup [name : {NameJo}, email : {UNDEF, EmailA}, phone_number : {PhoneA},
          password : {Pw1}, role : {0, 3}]

\* JSON bodies of POST /api/auth/login
LoginBodies == [email : {EmailA, SpEmailA, EmailB, UNDEF}, password : {Pw1, Pw2}]

\* values that fail one validation rule of POST /register
NameJ == <<"J">>
BadEmail == <<"a", "x">>
ShortPw == <<"a", "b", "c">>
BadPhone == <<"5", "a">>
LongPhone == <<"5", "5", "5", "5", "5", "5", "5", "5", "5", "5", "5", "5">>

\* JSON bodies of POST /api/auth/register with every field absent, of the
\* wrong type, failing its rule, or valid
WideRegisterBodies ==
    [name : {UNDEF, NUMBER, NameJ, NameJo}, email : {UNDEF, BadEmail, EmailA},
     phone_number : {UNDEF, BadPhone, LongPhone, PhoneA},
     password : {NUMBER, ShortPw, Pw1}, role : {0, 3, 1, 2}]

\* JSON bodies of POST /api/auth/login, the password possibly a number
WideLoginBodies == [email : {UNDEF, EmailA}, password : {UNDEF, NUMBER, Pw1, Pw2}]

\* JSON bodies of POST /api/users/me/change-password
ChangePasswordBodies ==
    [currentPassword : {UNDEF, NUMBER, Pw1, Pw2},
     newPassword : {UNDEF, NUMBER, ShortPw, Pw2}]

\* JSON bodies of PUT /api/users/me
PutMeBodies ==
    [name : {UNDEF, NameAl}, email : {UNDEF, Blank, EmailA, EmailB},
     phone_number : {UNDEF, PhoneB}]

\* JSON bodies of POST /api/todos: {todo: {title, completed}} or no todo
PostTodoBodies ==
    [has : {TRUE}, title : {UNDEF, TitleMilk}, completed : {"undefined", "true"}]
    \cup [has : {FALSE}, title : {UNDEF}, completed : {"undefined"}]

\* JSON bodies of PUT /api/todos/:id
PutTodoBodies == [title : {UNDEF, TitleEggs}, completed : {"undefined", "true", "false"}]

\* a JavaScript boolean as the store keeps it (BOOLEAN is TINYINT)
ToTinyInt(b) == IF b = "true" THEN 1 ELSE 0

\* todo.completed as sent, without the default
OrNothing(b) == b

\* todo.completed || false
OrFalse(b) == IF b = "true" THEN "true" ELSE "false"

\* the value of an absent column
SqlNull == <<"NULL">>

(*************************** initial state ********************************)
\* no request is being served
NoRequest ==
    [op |-> "none", auth |-> "none", user |-> NoUser,
     arg |-> [none |-> TRUE], reached |-> FALSE]
NoResponse == [status |-> 0, body |-> [error |-> ""]]

\* a connection on which no register request has arrived
Idle == [stage |-> "idle", body |-> [none |-> TRUE], status |-> 0]

Init ==
    /\ users = {}
    /\ nextUserId = 1
    /\ todos = {}
    /\ nextTodoId = 1
    /\ tokens = {}
    /\ now = 0
    /\ storeUp = TRUE
    /\ inflight = [r \in 1..MaxInFlight |-> Idle]
    /\ env = [JWT_SECRET |-> "JWT_SECRET"]
    /\ connection = "open"
    /\ server = "listening"
    /\ req = NoRequest
    /\ resp = NoResponse


(*************************** the route pipeline ***************************)
\* how a header fares with the Token Service
AuthKind(h, t) ==
    IF ~h.present THEN "none"
    ELSE IF VerifyToken(h.token, t).ok THEN "ok"
    ELSE VerifyToken(h.token, t).err

\* a router mounted without middleware
NoStages == << >>

\* the middleware each router mounts before its handlers
TodoStages == <<"authenticateToken">>
UserStages == <<"authenticateToken">>
AdminStages == <<"authenticateToken", "checkAdmin">>

\* the stages of a route run in order; the first that responds ends the
\* request (status # 0), otherwise the handler is invoked with req.user
RECURSIVE RunStages(_, _, _, _)
RunStages(stages, h, t, user) ==
    IF stages = << >> THEN [status |-> 0, body |-> [error |-> ""], user |-> user]
    ELSE IF Head(stages) = "authenticateToken"
    THEN LET a == AuthenticateToken(h, t)
         IN  IF a.status # 0 THEN a ELSE RunStages(Tail(stages), h, t, a.user)
    ELSE LET c == CheckAdmin(user)
         IN  IF c.status # 0
             THEN [status |-> c.status, body |-> c.body, user |-> user]
             ELSE RunStages(Tail(stages), h, t, user)

\* the headers a client can send: none, a string that is no token, a held
\* token, a held token with its role raised to admin (the signature no
\* longer matches), and an admin token signed with another key
Headers ==
    {NoHeader, Bearer(Garbage)}
    \cup {Bearer(tok) : tok \in tokens}
    \cup {Bearer([tok EXCEPT !.role = 1]) : tok \in tokens}
    \cup {Bearer(JwtSignAs([id |-> 1, email |-> EmailA, role |-> 1],
                           "attacker", now))}

\* a fault the handler swallows: nothing is sent
Swallowed(fail) == [status |-> 0, body |-> [error |-> ""]]

\* catch (error) { res.status(500).json({ error: fail }) }
Caught(fail) == [status |-> 500, body |-> [error |-> fail]]

\* a store or hashing call: it throws while the store is down, and the
\* handler's catch answers; otherwise the handler goes on with Work
OrFault(fail, Work) ==
    IF storeUp THEN Work
    ELSE /\ resp' = Caught(fail)
         /\ UNCHANGED store

\* a protected route: the stages, then Handler with the attached identity;
\* req.arg holds the arguments the handler received (none when a stage
\* refused the request).
\* A handler that reads req.user.userId without an attached identity
\* throws inside its try block and answers 500.
Protected(op, stages, h, arg, fail, Handler(_)) ==
    LET g == RunStages(stages, h, now, NoUser)
    IN  /\ req = NoRequest
        /\ req' = [op |-> op, auth |-> AuthKind(h, now), user |-> g.user,
                   arg |-> IF g.status = 0 THEN arg ELSE [none |-> TRUE],
                   reached |-> (g.status = 0)]
        /\ server = "listening"
        /\ UNCHANGED <<tokens, now, storeUp, inflight, boot>>
        /\ IF g.status # 0
           THEN /\ resp' = [status |-> g.status, body |-> g.body]
                /\ UNCHANGED store
           ELSE IF g.user = NoUser
           THEN /\ resp' = Caught(fail)
                /\ UNCHANGED store
           ELSE Handler(g.user)

\* a public route
Public(op, arg) ==
    /\ req = NoRequest
    /\ req' = [op |-> op, auth |-> "none", user |-> NoUser, arg |-> arg,
               reached |-> TRUE]
    /\ server = "listening"
    /\ UNCHANGED <<now, storeUp, inflight, boot>>

(************************** routes/auth.js ********************************)
\* a role check that accepts every role the required-fields check lets by
RoleAnyTruthy(role) == role # 0

\* [1, 2].includes(role)
RoleAllowed(role) == role \in {1, 2}

\* name.trim() on a value that is no string throws inside the try block
NameTrimThrows == "TypeError: name.trim is not a function"

\* the checks of POST /register before the store is consulted, in the
\* order of the code; "" when the payload passes
ValidateRegister(b) ==
    IF ~Truthy(b.name) \/ ~Truthy(b.email) \/ ~Truthy(b.phone_number)
       \/ ~Truthy(b.password) \/ b.role = 0
    THEN "All fields are required"
    ELSE IF ~IsString(b.name) THEN NameTrimThrows
    ELSE IF Len(Trim(b.name)) < 2 THEN "Name must be at least 2 characters"
    ELSE IF ~EmailRegexTest(b.email) THEN "Please enter a valid email address"
    \* (a number).length is undefined, and undefined < 6 is false
    ELSE IF IsString(b.password) /\ Len(b.password) < 6
    THEN "Password must be at least 6 characters"
    ELSE IF ~PhoneRegexTest(b.phone_number) THEN "Please enter a valid phone number"
    ELSE IF Len(DigitsOnly(b.phone_number)) > 11
    THEN "Phone number must be maximum 11 digits"
    ELSE IF ~RoleAllowed(b.role) THEN "Invalid role. Must be 1 (admin) or 2 (user)"
    ELSE ""

\* SELECT * FROM users WHERE email = ?
UsersByEmail(email) == {u \in users : u.email = email}

\* the row POST /register inserts
RegisterRow(b, id) ==
    [id |-> id, name |-> Trim(b.name), email |-> Trim(b.email),
     phone_number |-> b.phone_number, password |-> BcryptHash(b.password),
     role |-> b.role]

\* POST /api/auth/register
RegisterOf(bodies) ==
    \E b \in bodies :
        /\ Public("register", b)
        /\ UNCHANGED <<todos, nextTodoId, tokens>>
        /\ IF ValidateRegister(b) = NameTrimThrows
           THEN /\ resp' = Caught("Failed to register user")
                /\ UNCHANGED <<users, nextUserId>>
           ELSE IF ValidateRegister(b) # ""
           THEN /\ resp' = [status |-> 400, body |-> [error |-> ValidateRegister(b)]]
                /\ UNCHANGED <<users, nextUserId>>
           ELSE IF ~storeUp
           THEN /\ resp' = Caught("Failed to register user")
                /\ UNCHANGED <<users, nextUserId>>
           ELSE IF UsersByEmail(b.email) # {}
           THEN /\ resp' = [status |-> 400,
                            body |-> [error |-> "Email already registered"]]
                /\ UNCHANGED <<users, nextUserId>>
           ELSE IF ~IsString(b.password)
           \* bcrypt.hash throws on data that is no string
           THEN /\ resp' = Caught("Failed to register user")
                /\ UNCHANGED <<users, nextUserId>>
           ELSE /\ nextUserId <= MaxUsers
                /\ users' = users \cup {RegisterRow(b, nextUserId)}
                /\ nextUserId' = nextUserId + 1
                /\ resp' = [status |-> 201,
                            body |-> [message |-> "User registered successfully!",
                                      userId |-> nextUserId]]

\* a check that also sees the registrations whose insert is still to come
EmailRegisteredOrInFlight(b) ==
    \/ UsersByEmail(b.email) # {}
    \/ \E r \in 1..MaxInFlight :
           inflight[r].stage = "hashing" /\ inflight[r].body.email = b.email

\* existingUsers.length > 0
EmailRegistered(b) == UsersByEmail(b.email) # {}

\* POST /api/auth/register on connection r, up to its first suspension
\* after the email check: validation, then SELECT ... WHERE email = ?;
\* a request that passes is left awaiting bcrypt.hash
RegisterBeginOf(bodies) ==
    \E r \in 1..MaxInFlight, b \in bodies :
        /\ req = NoRequest
        /\ server = "listening"
        /\ inflight[r].stage = "idle"
        /\ inflight' = [inflight EXCEPT ![r] =
               IF ValidateRegister(b) # "" \/ EmailRegistered(b)
               THEN [stage |-> "done", body |-> b, status |-> 400]
               ELSE [stage |-> "hashing", body |-> b, status |-> 0]]
        /\ UNCHANGED <<users, nextUserId, todos, nextTodoId, tokens, now,
                       storeUp, boot, req, resp>>

\* the rest of the handler on connection r, once bcrypt.hash has resolved:
\* INSERT INTO users, then 201
RegisterFinish ==
    \E r \in 1..MaxInFlight :
        /\ inflight[r].stage = "hashing"
        /\ nextUserId <= MaxUsers
        /\ users' = users \cup {RegisterRow(inflight[r].body, nextUserId)}
        /\ nextUserId' = nextUserId + 1
        /\ inflight' = [inflight EXCEPT ![r] =
               [stage |-> "done", body |-> @.body, status |-> 201]]
        /\ UNCHANGED <<todos, nextTodoId, tokens, now, storeUp, boot, req, resp>>

\* the response on connection r has been sent
RegisterEnd ==
    \E r \in 1..MaxInFlight :
        /\ inflight[r].stage = "done"
        /\ inflight' = [inflight EXCEPT ![r] = Idle]
        /\ UNCHANGED <<users, nextUserId, todos, nextTodoId, tokens, now,
                       storeUp, boot, req, resp>>

\* an answer that would tell an unknown email from a wrong password
LoginNoSuchAccount == [status |-> 404, body |-> [error |-> "User not found"]]

\* the answer of POST /login when no row has the email
LoginUnknownEmail == [status |-> 401, body |-> [error |-> "Invalid email or password"]]

\* the answer of POST /login when bcrypt.compare fails
LoginWrongPassword == [status |-> 401, body |-> [error |-> "Invalid email or password"]]

\* POST /api/auth/login
LoginOf(bodies) ==
    \E b \in bodies :
        /\ Public("login", b)
        /\ UNCHANGED store
        /\ IF ~Truthy(b.email) \/ ~Truthy(b.password)
           THEN /\ resp' = [status |-> 400,
                            body |-> [error |-> "Email and password are required"]]
                /\ UNCHANGED tokens
           ELSE IF ~storeUp
           THEN /\ resp' = Caught("Failed to login")
                /\ UNCHANGED tokens
           ELSE IF UsersByEmail(b.email) = {}
           THEN /\ resp' = LoginUnknownEmail
                /\ UNCHANGED tokens
           ELSE \E user \in UsersByEmail(b.email) :
                \* users[0]: the first row the store returns (no ORDER BY)
                /\ IF ~IsString(b.password)
                   \* bcrypt.compare throws on data that is no string
                   THEN /\ resp' = Caught("Failed to login")
                        /\ UNCHANGED tokens
                   ELSE IF ~BcryptCompare(b.password, user.password)
                   THEN /\ resp' = LoginWrongPassword
                        /\ UNCHANGED tokens
                   ELSE IF JwtSecret = NoSecret
                   \* jwt.sign throws: secretOrPrivateKey must have a value
                   THEN /\ resp' = Caught("Failed to login")
                        /\ UNCHANGED tokens
                   ELSE /\ Cardinality(tokens \cup {IssueToken(user, now)}) <= MaxTokens
                        /\ tokens' = tokens \cup {IssueToken(user, now)}
                        /\ resp' = [status |-> 200,
                                    body |-> [message |-> "Login successful!",
                                              token |-> IssueToken(user, now),
                                              user |-> [id |-> user.id,
                                                        name |-> user.name,
                                                        email |-> user.email,
                                                        role |-> user.role]]]


(********************** owner-scoped todo routes **************************)
Ok(body) == [status |-> 200, body |-> body]
Err(status, msg) == [status |-> status, body |-> [error |-> msg]]

\* WHERE id = ?, without the owner filter
OwnTodosAnyOwner(id, userId) == {t \in todos : SqlIdEq(t.id, id)}

\* WHERE id = ? AND user_id = ?
OwnTodos(id, userId) == {t \in todos : SqlIdEq(t.id, id) /\ t.user_id = userId}

\* an answer that looks the id up again and refuses another user's item
\* with 403
ForbiddenIfExists(id) ==
    IF \E t \in todos : SqlIdEq(t.id, id)
    THEN Err(403, "Not your todo")
    ELSE Err(404, "Todo not found or unauthorized")

\* result.affectedRows === 0: the answer of PUT and DELETE /todos/:id when
\* the statement touched no row, whatever the reason
NoRowAffected(id) == Err(404, "Todo not found or unauthorized")

\* GET /api/todos
GetTodos ==
    \E h \in Headers :
        Protected("GET /todos", TodoStages, h, [none |-> TRUE],
                  "Failed to get todos",
                  LAMBDA user : OrFault("Failed to get todos",
                      /\ resp' = Ok([todos |-> {t \in todos : t.user_id = user.userId}])
                      /\ UNCHANGED store))

\* GET /api/todos/:id: the router registers no such route, so no
\* middleware and no handler runs and the framework answers 404
GetTodoByIdOf(ids) ==
    \E id \in ids :
        /\ req = NoRequest
        /\ server = "listening"
        /\ req' = [op |-> "GET /todos/:id", auth |-> "none", user |-> NoUser,
                   arg |-> [id |-> id], reached |-> FALSE]
        /\ resp' = Err(404, "Cannot GET")
        /\ UNCHANGED <<users, nextUserId, todos, nextTodoId, tokens, now, storeUp, inflight, boot>>

\* INSERT INTO todos (title, completed): the row without its owner
NewTodoRowNoOwner(b, id, userId) ==
    [id |-> id, user_id |-> 0, title |-> b.title,
     completed |-> ToTinyInt(OrFalse(b.completed))]

\* INSERT INTO todos (user_id, title, completed) VALUES (?, ?, ?)
NewTodoRow(b, id, userId) ==
    [id |-> id, user_id |-> userId, title |-> b.title,
     completed |-> ToTinyInt(OrFalse(b.completed))]

\* POST /api/todos
PostTodoOf(bodies) ==
    \E h \in Headers, b \in bodies :
        Protected("POST /todos", TodoStages, h, b, "Failed to create todo",
                  LAMBDA user :
                      IF ~b.has \/ ~Truthy(b.title)
                      THEN /\ resp' = Err(400, "Todo title is required")
                           /\ UNCHANGED store
                      ELSE OrFault("Failed to create todo",
                           /\ nextTodoId <= MaxTodos
                           /\ todos' = todos \cup
                                  {NewTodoRow(b, nextTodoId, user.userId)}
                           /\ nextTodoId' = nextTodoId + 1
                           /\ resp' = [status |-> 201,
                                       body |-> [message |-> "Todo created!",
                                                 todo |-> [id |-> nextTodoId,
                                                           user_id |-> user.userId,
                                                           title |-> b.title,
                                                           completed |-> OrFalse(b.completed)]]]
                           /\ UNCHANGED <<users, nextUserId>>))

\* an update that SETs both columns whatever the body supplies
PutTodoRowWhole(t, b) ==
    [t EXCEPT !.title = b.title, !.completed = ToTinyInt(b.completed)]

\* the row PUT /api/todos/:id leaves: only the supplied columns are SET
PutTodoRow(t, b) ==
    [t EXCEPT !.title = IF b.title # UNDEF THEN b.title ELSE @,
              !.completed = IF b.completed # "undefined"
                            THEN ToTinyInt(b.completed) ELSE @]

\* PUT /api/todos/:id
PutTodoOf(ids, bodies) ==
    \E h \in Headers, id \in ids, b \in bodies :
        Protected("PUT /todos/:id", TodoStages, h, [id |-> id, body |-> b],
                  "Failed to update todo",
                  LAMBDA user :
                      /\ UNCHANGED <<users, nextUserId, nextTodoId>>
                      /\ IF b.title = UNDEF /\ b.completed = "undefined"
                         THEN /\ resp' = Err(400, "No update data provided")
                              /\ UNCHANGED todos
                         ELSE OrFault("Failed to update todo",
                              /\ todos' = {IF t \in OwnTodos(id, user.userId)
                                           THEN PutTodoRow(t, b) ELSE t : t \in todos}
                              /\ resp' = IF OwnTodos(id, user.userId) = {}
                                         THEN NoRowAffected(id)
                                         ELSE Ok([message |-> "Todo updated!"])))

\* DELETE /api/todos/:id
DeleteTodoOf(ids) ==
    \E h \in Headers, id \in ids :
        Protected("DELETE /todos/:id", TodoStages, h, [id |-> id],
                  "Failed to delete todo",
                  LAMBDA user : OrFault("Failed to delete todo",
                      /\ UNCHANGED <<users, nextUserId, nextTodoId>>
                      /\ todos' = todos \ OwnTodos(id, user.userId)
                      /\ resp' = IF OwnTodos(id, user.userId) = {}
                                 THEN NoRowAffected(id)
                                 ELSE Ok([message |-> "Todo deleted!"])))

(************************** routes/users.js *******************************)
\* SELECT * FROM users: the whole row, password column included
ProfileWithPassword(u) == u

\* SELECT id, name, email, phone_number, role ... : a row without password
Profile(u) ==
    [id |-> u.id, name |-> u.name, email |-> u.email,
     phone_number |-> u.phone_number, role |-> u.role]

\* GET /api/users/me
GetMe ==
    \E h \in Headers :
        Protected("GET /me", UserStages, h, [none |-> TRUE],
                  "Failed to fetch profile",
                  LAMBDA user : OrFault("Failed to fetch profile",
                      /\ UNCHANGED store
                      /\ resp' = IF {u \in users : u.id = user.userId} = {}
                                 THEN Err(404, "User not found")
                                 ELSE Ok([user |-> Profile(CHOOSE u \in users :
                                                              u.id = user.userId)])))

\* the row PUT /api/users/me leaves: every column that is not undefined
\* in the body is SET
PutMeRow(u, b) ==
    [u EXCEPT !.name = IF b.name # UNDEF THEN b.name ELSE @,
              !.email = IF b.email # UNDEF THEN b.email ELSE @,
              !.phone_number = IF b.phone_number # UNDEF THEN b.phone_number ELSE @]

\* SELECT id FROM users WHERE email = ? AND id != ?, run only if (email)
EmailTakenByOther(b, userId) ==
    Truthy(b.email) /\ {u \in users : u.email = b.email /\ u.id # userId} # {}

\* PUT /api/users/me
PutMeOf(bodies) ==
    \E h \in Headers, b \in bodies :
        Protected("PUT /me", UserStages, h, b, "Failed to update profile",
                  LAMBDA user :
                      /\ UNCHANGED <<nextUserId, todos, nextTodoId>>
                      /\ IF ~Truthy(b.name) /\ ~Truthy(b.email) /\ ~Truthy(b.phone_number)
                         THEN /\ resp' = Err(400, "No update data provided")
                              /\ UNCHANGED users
                         ELSE OrFault("Failed to update profile",
                              IF EmailTakenByOther(b, user.userId)
                              THEN /\ resp' = Err(400, "Email already in use")
                                   /\ UNCHANGED users
                              ELSE /\ users' = {IF u.id = user.userId THEN PutMeRow(u, b)
                                                ELSE u : u \in users}
                                   /\ resp' = IF {u \in users : u.id = user.userId} = {}
                                              THEN Err(404, "User not found")
                                              ELSE Ok([message |-> "Profile updated successfully"])))

\* the row POST /me/change-password leaves: only the password column is SET
ChangePasswordRow(u, b) == [u EXCEPT !.password = BcryptHash(b.newPassword)]

\* POST /api/users/me/change-password
ChangePasswordOf(bodies) ==
    \E h \in Headers, b \in bodies :
        Protected("POST /me/change-password", UserStages, h, b,
                  "Failed to change password",
                  LAMBDA user :
                      /\ UNCHANGED <<nextUserId, todos, nextTodoId>>
                      /\ IF ~Truthy(b.currentPassword) \/ ~Truthy(b.newPassword)
                         THEN /\ resp' = Err(400, "Both currentPassword and newPassword are required")
                              /\ UNCHANGED users
                         \* (a number).length is undefined, and undefined < 6 is false
                         ELSE IF IsString(b.newPassword) /\ Len(b.newPassword) < 6
                         THEN /\ resp' = Err(400, "New password must be at least 6 characters long")
                              /\ UNCHANGED users
                         ELSE OrFault("Failed to change password",
                              IF {u \in users : u.id = user.userId} = {}
                              THEN /\ resp' = Err(404, "User not found")
                                   /\ UNCHANGED users
                              ELSE IF ~IsString(b.currentPassword)
                              \* bcrypt.compare throws on data that is no string
                              THEN /\ resp' = Caught("Failed to change password")
                                   /\ UNCHANGED users
                              ELSE IF \E u \in users :
                                          /\ u.id = user.userId
                                          /\ ~BcryptCompare(b.currentPassword, u.password)
                              THEN /\ resp' = Err(400, "Current password is incorrect")
                                   /\ UNCHANGED users
                              ELSE IF ~IsString(b.newPassword)
                              \* bcrypt.hash throws on data that is no string
                              THEN /\ resp' = Caught("Failed to change password")
                                   /\ UNCHANGED users
                              ELSE /\ users' = {IF u.id = user.userId
                                                THEN ChangePasswordRow(u, b)
                                                ELSE u : u \in users}
                                   /\ resp' = Ok([message |-> "Password changed successfully"])))

\* POST /api/users/me/change-password on connection r, up to the await of
\* bcrypt.hash: the middleware, the two validations, SELECT password FROM
\* users WHERE id = ?, and bcrypt.compare
ChangePasswordBeginOf(bodies) ==
    \E r \in 1..MaxInFlight, h \in Headers, b \in bodies :
        LET g    == RunStages(UserStages, h, now, NoUser)
            rows == {u \in users : u.id = g.user.userId}
            done(st) == [stage |-> "done", status |-> st,
                         body |-> [userId |-> g.user.userId,
                                   currentPassword |-> b.currentPassword,
                                   newPassword |-> b.newPassword]]
        IN  /\ server = "listening"
            /\ inflight[r].stage = "idle"
            /\ inflight' = [inflight EXCEPT ![r] =
                   IF g.status # 0 THEN done(g.status)
                   ELSE IF ~Truthy(b.currentPassword) \/ ~Truthy(b.newPassword)
                   THEN done(400)
                   ELSE IF IsString(b.newPassword) /\ Len(b.newPassword) < 6
                   THEN done(400)
                   ELSE IF ~storeUp THEN done(500)
                   ELSE IF rows = {} THEN done(404)
                   ELSE IF ~IsString(b.currentPassword) THEN done(500)
                   ELSE IF \E u \in rows : ~BcryptCompare(b.currentPassword, u.password)
                   THEN done(400)
                   ELSE IF ~IsString(b.newPassword) THEN done(500)
                   ELSE [done(0) EXCEPT !.stage = "updating"]]
            /\ UNCHANGED <<users, nextUserId, todos, nextTodoId, tokens, now,
                           storeUp, boot, req, resp>>

\* the rest of the handler on connection r, once bcrypt.hash has resolved:
\* UPDATE users SET password = ? WHERE id = ?, then 200 (the handler does
\* not look at the number of rows the UPDATE matched)
ChangePasswordFinish ==
    \E r \in 1..MaxInFlight :
        /\ inflight[r].stage = "updating"
        /\ IF ~storeUp
           THEN /\ users' = users
                /\ inflight' = [inflight EXCEPT ![r].stage = "done",
                                                ![r].status = 500]
           ELSE /\ users' = {IF u.id = inflight[r].body.userId
                             THEN ChangePasswordRow(u, inflight[r].body)
                             ELSE u : u \in users}
                /\ inflight' = [inflight EXCEPT ![r].stage = "done",
                                    ![r].status = 200]
        /\ UNCHANGED <<nextUserId, todos, nextTodoId, tokens, now, storeUp, boot,
                       req, resp>>

\* the response on connection r has been sent
ChangePasswordEnd ==
    \E r \in 1..MaxInFlight :
        /\ inflight[r].stage = "done"
        /\ inflight' = [inflight EXCEPT ![r] = Idle]
        /\ UNCHANGED <<users, nextUserId, todos, nextTodoId, tokens, now,
                       storeUp, boot, req, resp>>


(************************** routes/admin.js *******************************)
\* todos LEFT JOIN users ON todos.user_id = users.id
JoinedTodo(t) ==
    LET owners == {u \in users : u.id = t.user_id}
    IN  [id |-> t.id, user_id |-> t.user_id, title |-> t.title,
         completed |-> t.completed,
         user_name |-> IF owners = {} THEN SqlNull
                       ELSE (CHOOSE u \in owners : TRUE).name,
         user_email |-> IF owners = {} THEN SqlNull
                        ELSE (CHOOSE u \in owners : TRUE).email]

\* GET /api/admin/todos
AdminGetTodos ==
    \E h \in Headers :
        Protected("GET /admin/todos", AdminStages, h, [none |-> TRUE],
                  "Failed to get todos",
                  LAMBDA user : OrFault("Failed to get todos",
                      /\ UNCHANGED store
                      /\ resp' = Ok([todos |-> {JoinedTodo(t) : t \in todos}])))

\* DELETE /api/admin/todos/:id
AdminDeleteTodoOf(ids) ==
    \E h \in Headers, id \in ids :
        Protected("DELETE /admin/todos/:id", AdminStages, h, [id |-> id],
                  "Failed to delete todo",
                  LAMBDA user : OrFault("Failed to delete todo",
                      /\ UNCHANGED <<users, nextUserId, nextTodoId>>
                      /\ todos' = {t \in todos : ~SqlIdEq(t.id, id)}
                      /\ resp' = IF {t \in todos : SqlIdEq(t.id, id)} = {}
                                 THEN Err(404, "Todo not found")
                                 ELSE Ok([message |-> "Todo deleted successfully"])))

\* GET /api/admin/users
AdminGetUsers ==
    \E h \in Headers :
        Protected("GET /admin/users", AdminStages, h, [none |-> TRUE],
                  "Failed to get users",
                  LAMBDA user : OrFault("Failed to get users",
                      /\ UNCHANGED store
                      /\ resp' = Ok([users |-> {Profile(u) : u \in users}])))

\* the self-protection test of DELETE /users/:id:
\* parseInt(id) === adminId
IsOwnAccount(id, adminId) == ParseIntEquals(id, adminId)

\* DELETE /api/admin/users/:id
AdminDeleteUserOf(ids) ==
    \E h \in Headers, id \in ids :
        Protected("DELETE /admin/users/:id", AdminStages, h, [id |-> id],
                  "Failed to delete user",
                  LAMBDA user :
                      /\ UNCHANGED <<nextUserId, todos, nextTodoId>>
                      /\ IF IsOwnAccount(id, user.userId)
                         THEN /\ resp' = Err(400, "You cannot delete your own account")
                              /\ UNCHANGED users
                         ELSE OrFault("Failed to delete user",
                              /\ users' = {u \in users : ~SqlIdEq(u.id, id)}
                              /\ resp' = IF {u \in users : SqlIdEq(u.id, id)} = {}
                                         THEN Err(404, "User not found")
                                         ELSE Ok([message |-> "User deleted successfully"])))

\* GET /api/admin/stats
AdminStats ==
    \E h \in Headers :
        Protected("GET /admin/stats", AdminStages, h, [none |-> TRUE],
                  "Failed to get statistics",
                  LAMBDA user : OrFault("Failed to get statistics",
                      /\ UNCHANGED store
                      /\ resp' = Ok([stats |->
                             [totalUsers |-> Cardinality(users),
                              totalTodos |-> Cardinality(todos),
                              completedTodos |->
                                  Cardinality({t \in todos : t.completed = 1}),
                              pendingTodos |->
                                  Cardinality({t \in todos : t.completed = 0})]])))

\* GET /api/admin/stats on connection r, up to the end of its first await:
\* the middleware, then SELECT COUNT(*) FROM users
AdminStatsBegin ==
    \E r \in 1..MaxInFlight, h \in Headers :
        LET g == RunStages(AdminStages, h, now, NoUser)
        IN  /\ server = "listening"
            /\ inflight[r].stage = "idle"
            /\ inflight' = [inflight EXCEPT ![r] =
                   IF g.status # 0
                   THEN [stage |-> "done", body |-> [none |-> TRUE], status |-> g.status]
                   ELSE IF ~storeUp
                   THEN [stage |-> "done", body |-> [none |-> TRUE], status |-> 500]
                   ELSE [stage |-> "counting", status |-> 0,
                         body |-> [queries |-> 1,
                                   totalUsers |-> Cardinality(users),
                                   totalTodos |-> 0,
                                   completedTodos |-> 0,
                                   pendingTodos |-> 0]]]
            /\ UNCHANGED <<users, nextUserId, todos, nextTodoId, tokens, now,
                           storeUp, boot, req, resp>>

\* the next await of the handler on connection r: the count of todos, of
\* completed todos, then of pending todos and res.json
AdminStatsQuery ==
    \E r \in 1..MaxInFlight :
        /\ inflight[r].stage = "counting"
        /\ inflight' = [inflight EXCEPT ![r] =
               IF ~storeUp
               THEN [stage |-> "done", body |-> [none |-> TRUE], status |-> 500]
               ELSE IF @.body.queries = 1
               THEN [@ EXCEPT !.body.queries = 2,
                              !.body.totalTodos = Cardinality(todos)]
               ELSE IF @.body.queries = 2
               THEN [@ EXCEPT !.body.queries = 3,
                              !.body.completedTodos =
                                  Cardinality({t \in todos : t.completed = 1})]
               ELSE [@ EXCEPT !.body.queries = 4,
                              !.body.pendingTodos =
                                  Cardinality({t \in todos : t.completed = 0}),
                              !.stage = "done",
                              !.status = 200]]
        /\ UNCHANGED <<users, nextUserId, todos, nextTodoId, tokens, now,
                       storeUp, boot, req, resp>>

\* the response on connection r has been sent
AdminStatsEnd ==
    \E r \in 1..MaxInFlight :
        /\ inflight[r].stage = "done"
        /\ inflight' = [inflight EXCEPT ![r] = Idle]
        /\ UNCHANGED <<users, nextUserId, todos, nextTodoId, tokens, now,
                       storeUp, boot, req, resp>>

(***************************** index.js ***********************************)
\* the process has been started: the configuration is loaded (with or
\* without JWT_SECRET), the routers are mounted, startServer has not run;
\* the database is reachable or not
InitBoot ==
    /\ users = {}
    /\ nextUserId = 1
    /\ todos = {}
    /\ nextTodoId = 1
    /\ tokens = {}
    /\ now = 0
    /\ storeUp \in BOOLEAN
    /\ inflight = [r \in 1..MaxInFlight |-> Idle]
    /\ env \in {[JWT_SECRET |-> "JWT_SECRET"], [JWT_SECRET |-> NoSecret]}
    /\ connection = "undefined"
    /\ server = "starting"
    /\ req = NoRequest
    /\ resp = NoResponse

\* startServer, up to the end of await connectToMySQL(): the connection is
\* stored, or createConnection throws, connectToMySQL rethrows and
\* startServer ends without calling listen. Nothing on this path reads
\* process.env.JWT_SECRET.
ConnectToMySQL ==
    /\ server = "starting"
    /\ IF storeUp
       THEN /\ connection' = "open"
            /\ server' = "connected"
       ELSE /\ connection' = connection
            /\ server' = "crashed"
    /\ UNCHANGED <<users, nextUserId, todos, nextTodoId, tokens, now, storeUp,
                   inflight, env, req, resp>>

\* app.listen(port, ...)
Listen ==
    /\ server = "connected"
    /\ server' = "listening"
    /\ UNCHANGED <<users, nextUserId, todos, nextTodoId, tokens, now, storeUp,
                   inflight, env, connection, req, resp>>

(******************************* time *************************************)
\* the clock advances in steps of half a token lifetime
TickHours == ExpiresInHours \div 2

Tick ==
    /\ req = NoRequest
    /\ now < MaxTicks * TickHours
    /\ now' = now + TickHours
    /\ UNCHANGED <<users, nextUserId, todos, nextTodoId, tokens, storeUp, inflight, boot, req, resp>>

\* the store (or the hasher) stops answering: its calls throw
StoreFails ==
    /\ req = NoRequest
    /\ storeUp
    /\ storeUp' = FALSE
    /\ UNCHANGED <<users, nextUserId, todos, nextTodoId, tokens, now, inflight, boot, req, resp>>

\* the store answers again
StoreRecovers ==
    /\ req = NoRequest
    /\ ~storeUp
    /\ storeUp' = TRUE
    /\ UNCHANGED <<users, nextUserId, todos, nextTodoId, tokens, now, inflight, boot, req, resp>>

\* the response has been sent: the server is ready for the next request
\* (requests are served one after another here)
EndRequest ==
    /\ req # NoRequest
    /\ req' = NoRequest
    /\ resp' = NoResponse
    /\ UNCHANGED <<users, nextUserId, todos, nextTodoId, tokens, now, storeUp, inflight, boot>>

(**************************** specifications ******************************)
\* Accounts: registration, login, the profile routes and the admin user
\* routes, with every request value above
NextAccounts ==
    \/ RegisterOf(RegisterBodies)
    \/ LoginOf(LoginBodies)
    \/ GetMe
    \/ PutMeOf(PutMeBodies)
    \/ AdminGetUsers
    \/ AdminDeleteUserOf(PathIds)
    \/ EndRequest

SpecAccounts == Init /\ [][NextAccounts]_vars

\* Todos: the owner-scoped todo routes and the admin routes over them,
\* with the accounts that registration and login provide
NextTodos ==
    \/ RegisterOf(PlainRegisterBodies)
    \/ LoginOf(PlainLoginBodies)
    \/ GetTodos
    \/ GetTodoByIdOf(TodoPathIds)
    \/ PostTodoOf(PostTodoBodies)
    \/ PutTodoOf(TodoPathIds, PutTodoBodies)
    \/ DeleteTodoOf(TodoPathIds)
    \/ AdminGetTodos
    \/ AdminDeleteTodoOf(TodoPathIds)
    \/ AdminDeleteUserOf(UserPathIds)
    \/ AdminStats
    \/ EndRequest

SpecTodos == Init /\ [][NextTodos]_vars

\* Gate: every protected route behind its middleware while the clock runs;
\* one admin and one standard account, one request value per route
GateRegisterBodies ==
    {[name |-> NameJo, email |-> EmailA, phone_number |-> PhoneA,
      password |-> Pw1, role |-> 1],
     [name |-> NameJo, email |-> EmailB, phone_number |-> PhoneA,
      password |-> Pw1, role |-> 2]}
GatePathIds == {DecStr(n) : n \in 1..MaxUsers}

NextGate ==
    \/ RegisterOf(GateRegisterBodies)
    \/ LoginOf(PlainLoginBodies)
    \/ GetTodos
    \/ PostTodoOf({[has |-> TRUE, title |-> TitleMilk, completed |-> "undefined"]})
    \/ PutTodoOf(GatePathIds, {[title |-> UNDEF, completed |-> "true"]})
    \/ DeleteTodoOf(GatePathIds)
    \/ GetMe
    \/ PutMeOf({[name |-> UNDEF, email |-> EmailB, phone_number |-> UNDEF]})
    \/ AdminGetTodos
    \/ AdminDeleteTodoOf(GatePathIds)
    \/ AdminGetUsers
    \/ AdminDeleteUserOf(GatePathIds)
    \/ AdminStats
    \/ Tick
    \/ EndRequest

SpecGate == Init /\ [][NextGate]_vars

\* Inputs: the routes that take a JSON body, with bodies whose fields are
\* absent, of the wrong type, malformed or valid, and the routes that
\* read the rows back
NextInputs ==
    \/ RegisterOf(WideRegisterBodies)
    \/ LoginOf(WideLoginBodies)
    \/ GetMe
    \/ PutMeOf({[name |-> UNDEF, email |-> EmailB, phone_number |-> UNDEF]})
    \/ ChangePasswordOf(ChangePasswordBodies)
    \/ GetTodos
    \/ PostTodoOf({[has |-> TRUE, title |-> TitleMilk, completed |-> "undefined"]})
    \/ AdminGetTodos
    \/ AdminGetUsers
    \/ EndRequest

SpecInputs == Init /\ [][NextInputs]_vars

\* Faults: every route, one request value each, while the store and the
\* hasher fail and recover
FaultPathIds == {DecStr(1), DecStr(MaxUsers + 1)}

NextFaults ==
    \/ RegisterOf(GateRegisterBodies)
    \/ LoginOf(PlainLoginBodies)
    \/ GetTodos
    \/ GetTodoByIdOf({DecStr(1)})
    \/ PostTodoOf({[has |-> TRUE, title |-> TitleMilk, completed |-> "undefined"]})
    \/ PutTodoOf(FaultPathIds, {[title |-> UNDEF, completed |-> "true"]})
    \/ DeleteTodoOf(FaultPathIds)
    \/ GetMe
    \/ PutMeOf({[name |-> NameAl, email |-> UNDEF, phone_number |-> UNDEF]})
    \/ ChangePasswordOf({[currentPassword |-> Pw1, newPassword |-> Pw2],
                         [currentPassword |-> Pw1, newPassword |-> UNDEF]})
    \/ AdminGetTodos
    \/ AdminDeleteTodoOf(FaultPathIds)
    \/ AdminGetUsers
    \/ AdminDeleteUserOf(FaultPathIds)
    \/ AdminStats
    \/ StoreFails
    \/ StoreRecovers
    \/ EndRequest

SpecFaults == Init /\ [][NextFaults]_vars

\* Startup: the process from its start, with and without the signing
\* secret and with the database reachable or not, then the account and
\* profile routes
NextStartup ==
    \/ ConnectToMySQL
    \/ Listen
    \/ RegisterOf(GateRegisterBodies)
    \/ LoginOf(PlainLoginBodies)
    \/ GetMe
    \/ GetTodos
    \/ PostTodoOf({[has |-> TRUE, title |-> TitleMilk, completed |-> "undefined"]})
    \/ EndRequest

SpecStartup == InitBoot /\ [][NextStartup]_vars

\* Change: change-password requests suspended at their awaits while logins
\* and admin deletions are served
ChangeBodies == [currentPassword : {Pw1, Pw2}, newPassword : {Pw2, ShortPw}]
ChangeLoginBodies == [email : {EmailA, EmailB}, password : {Pw1, Pw2}]

NextChange ==
    \/ RegisterOf(GateRegisterBodies)
    \/ LoginOf(ChangeLoginBodies)
    \/ ChangePasswordBeginOf(ChangeBodies)
    \/ ChangePasswordFinish
    \/ ChangePasswordEnd
    \/ AdminDeleteUserOf(GatePathIds)
    \/ EndRequest

SpecChange == Init /\ [][NextChange]_vars

\* Stats: statistics requests suspended between their count queries while
\* todos are created, updated and deleted
StatsRegisterBodies ==
    {[name |-> NameJo, email |-> EmailA, phone_number |-> PhoneA,
      password |-> Pw1, role |-> 1]}
StatsLoginBodies == {[email |-> EmailA, password |-> Pw1]}

NextStats ==
    \/ RegisterOf(StatsRegisterBodies)
    \/ LoginOf(StatsLoginBodies)
    \/ PostTodoOf({[has |-> TRUE, title |-> TitleMilk, completed |-> "undefined"]})
    \/ PutTodoOf({DecStr(1)}, {[title |-> UNDEF, completed |-> "true"]})
    \/ DeleteTodoOf({DecStr(1)})
    \/ AdminStatsBegin
    \/ AdminStatsQuery
    \/ AdminStatsEnd
    \/ EndRequest

SpecStats == Init /\ [][NextStats]_vars

\* Race: register requests served concurrently, interleaved at the
\* suspension between the email check and the insert
NextRace ==
    \/ RegisterBeginOf(PlainRegisterBodies)
    \/ RegisterFinish
    \/ RegisterEnd

SpecRace == Init /\ [][NextRace]_vars

(******************************* claims ***********************************)
TodoOps == {"GET /todos", "POST /todos", "PUT /todos/:id", "DELETE /todos/:id"}
TodoIdOps == {"PUT /todos/:id", "DELETE /todos/:id"}

\* the request just served was made by an authenticated user other than
\* the owner of todo t, and addressed t where the route takes an id
ByAnotherUser(r, t) ==
    /\ r.op \in TodoOps
    /\ r.reached
    /\ r.user.userId # t.user_id
    /\ r.op \in TodoIdOps => SqlIdEq(t.id, r.arg.id)

\* an update that supplies neither title nor completed
EmptyUpdate(r) ==
    /\ r.op = "PUT /todos/:id"
    /\ r.arg.body.title = UNDEF
    /\ r.arg.body.completed = "undefined"

C2_NoDuplicateRegistration ==
    [][req'.op = "register" =>
          /\ (\E u \in users : u.email = Trim(req'.arg.email)) =>
                 (resp'.status = 400 /\ users' = users)
          /\ resp'.status = 201 =>
                 Cardinality({u \in users' : u.email = Trim(req'.arg.email)}) = 1]_vars

ProtectedOps ==
    {"GET /todos", "POST /todos", "PUT /todos/:id", "DELETE /todos/:id",
     "GET /me", "PUT /me",
     "GET /admin/todos", "DELETE /admin/todos/:id", "GET /admin/users",
     "DELETE /admin/users/:id", "GET /admin/stats"}
AdminOps ==
    {"GET /admin/todos", "DELETE /admin/todos/:id", "GET /admin/users",
     "DELETE /admin/users/:id", "GET /admin/stats"}

\* C3: a protected route's handler is reached only by a request whose
\* bearer token verifies; a request without a token is answered 401 and
\* one whose token fails verification (malformed, bad signature, expired)
\* is answered 403, and in both cases the handler is not invoked and the
\* store is unchanged.
C3_OnlyVerifiedReachHandlers ==
    [][req'.op \in ProtectedOps =>
          /\ req'.reached => req'.auth = "ok"
          /\ req'.auth = "none" =>
                 (resp'.status = 401 /\ ~req'.reached /\ UNCHANGED store)
          /\ req'.auth \in {"Malformed", "SignatureInvalid", "Expired"} =>
                 (resp'.status = 403 /\ ~req'.reached /\ UNCHANGED store)]_vars

\* C3 witness: a request with an expired token was refused with 403
C3_Witness ==
    /\ req.op = "POST /todos"
    /\ req.auth = "Expired"
    /\ resp.status = 403
    /\ ~req.reached

\* C4 (as stated): DELETE /api/admin/users/:id never removes the caller's
\* own row: a request addressing it is answered 400 and leaves the users
\* table unchanged; a request addressing another existing row is answered
\* 200 and removes exactly that row.
C4_SelfDeleteRefused ==
    [][(req'.op = "DELETE /admin/users/:id" /\ req'.reached) =>
          LET target == {u \in users : SqlIdEq(u.id, req'.arg.id)}
              own    == {u \in users : u.id = req'.user.userId}
          IN  /\ own \subseteq users'
              /\ (target # {} /\ target \subseteq own) =>
                     (resp'.status = 400 /\ users' = users)
              /\ (target # {} /\ target \cap own = {}) =>
                     (resp'.status = 200 /\ users' = users \ target)]_vars

\* C5: an admin-only endpoint called with a verified token whose role is
\* not 1 is answered 403 "access denied"; its handler does not run, the
\* answer carries no row, and users and todos are unchanged.
C5_AdminOnly ==
    [][(req'.op \in AdminOps /\ req'.auth = "ok" /\ req'.user.role # 1) =>
          /\ resp' = Err(403, "Access denied. Admin only.")
          /\ ~req'.reached
          /\ UNCHANGED store]_vars

\* C5 witness: a standard user's DELETE /api/admin/users/:id was refused
C5_Witness ==
    /\ req.op = "DELETE /admin/users/:id"
    /\ req.auth = "ok"
    /\ req.user.role = 2
    /\ resp.status = 403

\* the login request just served named no row, or only rows whose
\* password hash does not match
LoginRefusedCase(r) ==
    /\ r.op = "login"
    /\ Truthy(r.arg.email)
    /\ Truthy(r.arg.password)
    /\ \A u \in UsersByEmail(r.arg.email) :
           ~BcryptCompare(r.arg.password, u.password)

C7_VerifyIssueRoundTrip ==
    (req.op = "login" /\ resp.status = 200) =>
        \E u \in users :
            /\ u.id = resp.body.user.id
            /\ \A t \in now..(now + ExpiresInHours - 1) :
                   /\ VerifyToken(resp.body.token, t).ok
                   /\ AuthenticateToken(Bearer(resp.body.token), t).user
                          = [userId |-> u.id, email |-> u.email, role |-> u.role]

\* C7 witness: a standard user has logged in and holds the token
C7_Witness ==
    /\ req.op = "login"
    /\ resp.status = 200
    /\ resp.body.user.role = 2
    /\ resp.body.token \in tokens

\* C8: every issued token expires 24 hours after issuance; once 24 hours
\* have passed verification fails as Expired, every router's middleware
\* refuses it, and no request carrying it reaches a protected handler.
C8_TokenExpiresAfter24h ==
    /\ \A tok \in tokens :
           /\ tok.exp = tok.iat + 24
           /\ now >= tok.iat + 24 =>
                  /\ VerifyToken(tok, now) = [ok |-> FALSE, err |-> "Expired"]
                  /\ \A stages \in {TodoStages, UserStages, AdminStages} :
                         RunStages(stages, Bearer(tok), now, NoUser).status = 403
    /\ req.auth = "Expired" => (~req.reached /\ resp.status = 403)

\* C8 witness: a request carried a token issued more than 24 hours ago
C8_Witness ==
    /\ req.op \in ProtectedOps
    /\ req.auth = "Expired"
    /\ \E tok \in tokens : now > tok.iat + 24
    /\ resp.status = 403

\* C9 (as stated): no two user rows hold the same email.
C9_EmailUnique ==
    \A u, v \in users : u.email = v.email => u.id = v.id

\* C10 (as stated): no PUT /api/users/me request leaves a user row whose
\* email is the empty string, and it changes no user's id.
C10_EmailNeverBlank ==
    [][req'.op = "PUT /me" =>
          /\ \A u \in users' : u.email # Blank
          /\ {u.id : u \in users'} = {u.id : u \in users}]_vars

FirstFailingRule(b) ==
    LET missing == {f \in {"name", "email", "phone_number", "password"} :
                        ~Truthy(b[f])}
        rules == <<
            <<missing # {} \/ b.role = 0, "All fields are required">>,
            <<~IsString(b.name) \/ Len(Trim(b.name)) < 2,
              "Name must be at least 2 characters">>,
            <<~EmailRegexTest(b.email), "Please enter a valid email address">>,
            <<~IsString(b.password) \/ Len(b.password) < 6,
              "Password must be at least 6 characters">>,
            <<~PhoneRegexTest(b.phone_number), "Please enter a valid phone number">>,
            <<Len(DigitsOnly(b.phone_number)) > 11,
              "Phone number must be maximum 11 digits">>,
            <<b.role \notin {1, 2}, "Invalid role. Must be 1 (admin) or 2 (user)">>,
            <<\E u \in users : u.email = b.email, "Email already registered">> >>
        failing == {i \in 1..Len(rules) : rules[i][1]}
    IN  IF failing = {} THEN ""
        ELSE rules[CHOOSE i \in failing : \A j \in failing : i <= j][2]

\* C12 (as stated): a registration payload that fails one or more rules is
\* answered 400 with the message of the earliest rule it fails, and no
\* user row is created.
C12_FirstFailingRuleWins ==
    [][(req'.op = "register" /\ storeUp /\ FirstFailingRule(req'.arg) # "") =>
          /\ resp' = Err(400, FirstFailingRule(req'.arg))
          /\ users' = users]_vars

\* the rows and claim sets a response body carries
Carried(body) ==
    (IF "user" \in DOMAIN body THEN {body.user} ELSE {})
    \cup (IF "users" \in DOMAIN body THEN body.users ELSE {})
    \cup (IF "todos" \in DOMAIN body THEN body.todos ELSE {})
    \cup (IF "todo" \in DOMAIN body THEN {body.todo} ELSE {})
    \cup (IF "token" \in DOMAIN body THEN {body.token} ELSE {})

\* C13: no response carries the password column of a user, at top level
\* or in a row it returns, and every stored password is a bcrypt hash,
\* never the plaintext that was submitted.
C13_PasswordNeverReturned ==
    /\ "password" \notin DOMAIN resp.body
    /\ \A r \in Carried(resp.body) : "password" \notin DOMAIN r
    /\ \A u \in users : u.password = BcryptHash(u.password.of)

\* C13 witness: an admin has read the user rows
C13_Witness ==
    /\ req.op = "GET /admin/users"
    /\ resp.status = 200
    /\ resp.body.users # {}

\* the todo steps of the scenario: a POST /api/todos with only a title is
\* answered 201 with completed false and the caller as owner; a GET
\* /api/todos is answered 200 with exactly the caller's items
ScenarioTodoSteps ==
    /\ (/\ req'.op = "POST /todos"
        /\ req'.reached
        /\ storeUp
        /\ req'.arg = [has |-> TRUE, title |-> TitleMilk, completed |-> "undefined"])
       => /\ resp'.status = 201
          /\ resp'.body.todo.completed = "false"
          /\ resp'.body.todo.user_id = req'.user.userId
    /\ (req'.op = "GET /todos" /\ req'.reached /\ storeUp)
       => /\ resp'.status = 200
          /\ resp'.body.todos = {t \in todos : t.user_id = req'.user.userId}

\* the registration step of the scenario, with the phone_number given
ScenarioRegisters(phone, status) ==
    (/\ req'.op = "register"
     /\ storeUp
     /\ users = {}
     /\ req'.arg = [name |-> NameJo, email |-> EmailA,
                    phone_number |-> phone, password |-> Pw1, role |-> 2])
    => /\ resp'.status = status
       /\ status = 201 => \E u \in users' : u.email = EmailA /\ u.role = 2
       /\ status # 201 => users' = users

Statuses == {200, 201, 400, 401, 403, 404, 500}

\* the routes whose handler calls the store before it validates anything
StoreFirstOps ==
    {"GET /todos", "DELETE /todos/:id", "GET /me", "GET /admin/todos",
     "DELETE /admin/todos/:id", "GET /admin/users", "GET /admin/stats"}

C16_InputNever500 ==
    (req # NoRequest /\ storeUp) => resp.status # 500

\* C17: the email check and the insert of a registration are separate
\* store statements: the check of a request sees only the rows already
\* inserted, so it passes while another request with the same email
\* awaits its hash, and every request that passed the check inserts its
\* row and is answered 201; two overlapping registrations with one email
\* can therefore both be answered 201 and leave two rows with that email.
C17_CheckThenInsertRace ==
    [][\A r \in 1..MaxInFlight :
          /\ (/\ inflight[r].stage = "idle"
              /\ inflight'[r].stage # "idle"
              /\ ValidateRegister(inflight'[r].body) = ""
              /\ UsersByEmail(inflight'[r].body.email) = {})
             => inflight'[r].stage = "hashing"
          /\ (inflight[r].stage = "hashing" /\ inflight'[r].stage = "done")
             => /\ inflight'[r].status = 201
                /\ RegisterRow(inflight[r].body, nextUserId) \in users'
                /\ users \subseteq users']_vars

\* C17 witness: two overlapping registrations with the same email were
\* both answered 201 and two rows hold that email
C17_Witness ==
    \E r1, r2 \in 1..MaxInFlight :
        /\ r1 # r2
        /\ inflight[r1].stage = "done" /\ inflight[r1].status = 201
        /\ inflight[r2].stage = "done" /\ inflight[r2].status = 201
        /\ inflight[r1].body.email = inflight[r2].body.email
        /\ Cardinality({u \in users : u.email = inflight[r1].body.email}) = 2

\* the answer to a PUT or DELETE /api/todos/:id that touches no row of the
\* caller: it depends on the request alone
NotYours(r) ==
    IF EmptyUpdate(r) THEN Err(400, "No update data provided")
    ELSE Err(404, "Todo not found or unauthorized")

C19_OwnerExists ==
    \A t \in todos : \E u \in users : u.id = t.user_id

\* C20: a todo is created with the authenticated user's id as owner, and
\* no operation changes the owner id of an existing todo.
C20_OwnershipImmutable ==
    [][/\ \A t \in todos : \A t2 \in todos' :
              t2.id = t.id => t2.user_id = t.user_id
       /\ \A t2 \in todos' :
              (\A t \in todos : t.id # t2.id) =>
                  /\ req'.op = "POST /todos"
                  /\ resp'.status = 201
                  /\ t2.user_id = req'.user.userId]_vars

\* C20 witness: the owner has updated an item and still owns it
C20_Witness ==
    /\ req.op = "PUT /todos/:id"
    /\ resp.status = 200
    /\ \E t \in todos :
           /\ SqlIdEq(t.id, req.arg.id)
           /\ t.user_id = req.user.userId
           /\ t.completed = 1

\* the row the store holds for a verified identity, if any
RowOf(user) == {u \in users : u.id = user.userId /\ u.email = user.email}

\* C21: the middleware consults no store. A held token is accepted exactly
\* while it has not expired, whatever has happened to its user's row; a
\* request carrying it reaches the handler (on the admin routes: when the
\* token's role is 1) with the id, email and role the token was issued
\* with, and a token is refused only once it has expired.
C21_TokenOutlivesRow ==
    [][/\ \A tok \in tokens' \ tokens :
              /\ tok.iat = now
              /\ \E u \in users :
                     Claims(tok) = [userId |-> u.id, email |-> u.email, role |-> u.role]
       /\ \A tok \in tokens :
              /\ (AuthenticateToken(Bearer(tok), now).status = 0) <=> (now < tok.exp)
              /\ now < tok.exp =>
                     AuthenticateToken(Bearer(tok), now).user = Claims(tok)
       /\ (req'.op \in ProtectedOps /\ req'.auth = "ok") =>
              /\ \E tok \in tokens : now < tok.exp /\ req'.user = Claims(tok)
              /\ req'.reached <=> (req'.op \in AdminOps => req'.user.role = 1)
       /\ (req'.op \in ProtectedOps /\ req'.auth = "Expired") =>
              \E tok \in tokens : now >= tok.exp]_vars

\* C21 witness: an administrator whose row no longer carries the token's
\* email was served by an admin route, and a user whose row was deleted
\* was served by GET /api/users/me
C21_Witness ==
    /\ req.auth = "ok"
    /\ req.reached
    /\ RowOf(req.user) = {}
    /\ \/ req.op \in AdminOps
       \/ /\ req.op = "GET /me"
          /\ \A u \in users : u.id # req.user.userId
          /\ resp.status = 404

\* C22 (as stated): without JWT_SECRET in the configuration the server
\* never listens, and so never issues or verifies a token; and it listens
\* only after the store connection has been established.
C22_SecretRequiredToListen ==
    /\ JwtSecret = NoSecret =>
           /\ server # "listening"
           /\ tokens = {}
           /\ req.auth # "ok"
    /\ server = "listening" => connection = "open"

\* the parts of C22 that the start-up keeps: listening only once connected,
\* and no token issued or verified without the secret
C22_ListenOnlyConnected ==
    /\ server = "listening" => connection = "open"
    /\ JwtSecret = NoSecret => (tokens = {} /\ req.auth # "ok")

\* C23 (as stated): change-password answers 400 and leaves the stored hash
\* unchanged when the current password does not match or the new one is
\* shorter than 6; it answers 200 only if the hash of the caller's existing
\* row was replaced, so that a login with the new password then succeeds
\* and one with the old password fails, also when an admin deletes the
\* user while the change is in flight.
C23_CredentialConsistent ==
    [][\A r \in 1..MaxInFlight :
          /\ (inflight[r].stage = "idle" /\ inflight'[r].status = 400) =>
                 users' = users
          /\ (inflight[r].stage = "updating" /\ inflight'[r].status = 200) =>
                 \E u \in users' :
                     /\ u.id = inflight[r].body.userId
                     /\ \E old \in users : old.id = u.id
                     /\ BcryptCompare(inflight[r].body.newPassword, u.password)
                     /\ inflight[r].body.currentPassword # inflight[r].body.newPassword
                            => ~BcryptCompare(inflight[r].body.currentPassword,
                                              u.password)]_vars

\* the administrators' rows
Admins(rows) == {u \in rows : u.role = 1}

\* C24 (as stated): from a state with at least one administrator, no
\* DELETE /api/admin/users/:id leads to a state without one, whoever sends
\* it (an administrator whose own row is already deleted included).
C24_AdminSurvives ==
    [][(req'.op = "DELETE /admin/users/:id" /\ Admins(users) # {}) =>
          Admins(users') # {}]_vars

\* C25 (as stated): every answer of GET /api/admin/stats satisfies
\* totalTodos = completedTodos + pendingTodos, also when todo requests are
\* served between its count queries.
C25_StatsSnapshot ==
    \A r \in 1..MaxInFlight :
        (inflight[r].stage = "done" /\ inflight[r].status = 200) =>
            inflight[r].body.totalTodos =
                inflight[r].body.completedTodos + inflight[r].body.pendingTodos

\* C26: PUT /api/todos/:id with neither title nor completed is answered 400
\* and changes no row; otherwise the supplied fields of the addressed todo
\* of the caller are overwritten with the supplied values, its other field
\* and every other todo stay as they were and no row appears or vanishes.
\* POST /api/todos without a title is answered 400 and creates no row, and
\* a todo created without a completed value has completed = false.
C26_PartialUpdate ==
    [][/\ (req'.op = "PUT /todos/:id" /\ req'.reached) =>
              LET b   == req'.arg.body
                  own == {t \in todos : /\ SqlIdEq(t.id, req'.arg.id)
                                        /\ t.user_id = req'.user.userId}
              IN  /\ EmptyUpdate(req') => (resp'.status = 400 /\ todos' = todos)
                  /\ todos \ own \subseteq todos'
                  /\ {n.id : n \in todos'} = {t.id : t \in todos}
                  /\ Cardinality(todos') = Cardinality(todos)
                  /\ (~EmptyUpdate(req') /\ own # {}) => resp'.status = 200
                  /\ ~EmptyUpdate(req') =>
                         \A t \in own : \E n \in todos' :
                             /\ n.id = t.id
                             /\ n.user_id = t.user_id
                             /\ n.title = IF b.title = UNDEF THEN t.title ELSE b.title
                             /\ n.completed =
                                    IF b.completed = "undefined" THEN t.completed
                                    ELSE IF b.completed = "true" THEN 1 ELSE 0
       /\ (req'.op = "POST /todos" /\ req'.reached) =>
              /\ (~req'.arg.has \/ req'.arg.title \in {UNDEF, Blank}) =>
                     (resp'.status = 400 /\ todos' = todos)
              /\ (resp'.status = 201 /\ req'.arg.completed = "undefined") =>
                     /\ resp'.body.todo.completed = "false"
                     /\ \E n \in todos' \ todos :
                            n.id = resp'.body.todo.id /\ n.completed = 0]_vars

\* C26 witness: an update that supplied only completed was answered 200,
\* and the caller's todo is completed with the title it was created with,
\* next to another todo left as it was created
C26_Witness ==
    /\ req.op = "PUT /todos/:id"
    /\ resp.status = 200
    /\ req.arg.body.title = UNDEF
    /\ req.arg.body.completed = "true"
    /\ \E t \in todos :
           /\ SqlIdEq(t.id, req.arg.id)
           /\ t.user_id = req.user.userId
           /\ t.title = TitleMilk
           /\ t.completed = 1
    /\ \E t \in todos : ~SqlIdEq(t.id, req.arg.id) /\ t.completed = 0

=============================================================================
